---- MODULE Spec2Model ----
(***************************************************************************)
(* Model of the devhub authentication sagas                                *)
(* (packages/components/src/redux/sagas/auth.ts).                          *)
(* and of the personal access token helpers of the login context           *)
(* (packages/components/src/components/context/LoginHelpersContext.tsx).   *)
(*                                                                         *)
(* Four specifications share this module:                                  *)
(*   KeeperSpec - the Session Keeper loop `init` with the store it reads   *)
(*                and a millisecond clock;                                 *)
(*   Spec       - the dispatcher of authSagas (takeLatest watchers), the   *)
(*                login exchange onLoginRequest and the event reactions;   *)
(*   DeleteSpec - the same dispatcher with the delete-account reactions;   *)
(*   PatSpec    - loginWithGitHubPersonalAccessToken and                   *)
(*                removePersonalAccessToken of the login context.          *)
(* Optional JavaScript values are sets with at most one element: {} is     *)
(* undefined/null, {v} is the value v.  A user record holds the members    *)
(* its specification reads: lastLoginAt and plan in KeeperSpec, _id and    *)
(* github.user.id in Spec and DeleteSpec, github.user.id and               *)
(* github.user.login in PatSpec.                                           *)
(***************************************************************************)
EXTENDS Integers, Sequences, FiniteSets, TLC

VARIABLES
    \* ---- Session Keeper (KeeperSpec) ----
    now,            \* Date.now(), in milliseconds
    reloadable,     \* window && window.location && window.location.reload
    appToken,       \* selectors.appTokenSelector(state): {} or {token}
    isLogged,       \* selectors.isLoggedSelector(state)
    user,           \* selectors.currentUserSelector(state): {} or {user}
    kpc,            \* where init() is suspended
    wakeAt,         \* the instant the pending delay() elapses
    kLast,          \* what the last loop iteration did
    expiredHits,    \* times this run of init() took the "plan just expired" branch
                    \* for the trialEndAt now in the store
    reloadPending,  \* window.location.reload() was called, page not yet replaced
    \* ---- dispatcher, login exchange and event reactions (Spec) ----
    mode,           \* constants.LOCAL_ONLY_PERSONAL_ACCESS_TOKEN: "direct" or "backend"
    pending,        \* actions put or dispatched, not yet delivered (the scheduler's queue)
    log,            \* the actions delivered so far, in order
    exchanges,      \* the onLoginRequest tasks forked by takeLatest, oldest first
    uncaught,       \* errors that left a handler uncaught
    rehydrated,     \* REHYDRATE has been dispatched
    \* ---- delete-account reactions (DeleteSpec) ----
    deletions,      \* the onDeleteAccountRequest tasks forked by takeLatest, oldest first
    \* ---- personal access token helpers (PatSpec) ----
    patCalls,       \* the calls of the two helpers, oldest first
    patLoadingState,    \* useState: {} (undefined), {"adding"} or {"removing"}
    isExecutingOAuth    \* useState

storeVars == <<appToken, isLogged, user>>

keeperOnlyVars == <<now, reloadable, kpc, wakeAt, kLast, expiredHits, reloadPending>>

exchangeVars == <<mode, pending, log, exchanges, uncaught, rehydrated>>

deleteVars == <<deletions>>

patVars == <<patCalls, patLoadingState, isExecutingOAuth>>

vars == <<storeVars, keeperOnlyVars, exchangeVars, deleteVars, patVars>>

(***************************************************************************)
(* Bounds of the model.                                                    *)
(***************************************************************************)
MaxMinutes == 8
MaxRequests == 2

Tokens == {"t1", "t2"}

\* the application token a login of the UI obtains ("t1" is the persisted one)
UiTokens == {"t2"}

Some(S) == CHOOSE x \in S : TRUE

(***************************************************************************)
(* Time constants of init().                                               *)
(***************************************************************************)
ClockStep == 1000 * 60
StartTime == 1000 * 60 * 60 * 100
MaxNow == StartTime + MaxMinutes * ClockStep

ReloadAfter == 1000 * 60 * 60 * 48
RefreshAfter == 1000 * 60 * 60 * 12
ExpiredWindow == 1000 * 60 * 5
ExpiredDelay == 1000 * 60 * 1
TrialSoon == 1000 * 60 * 60
TrialSlack == 100
HourDelay == 1000 * 60 * 60

(***************************************************************************)
(* Inputs: the user records a login may put into the store.                *)
(***************************************************************************)
LastLoginTimes ==
    { StartTime - ReloadAfter,      \* 48 hours before the start: older after a tick
      StartTime - RefreshAfter,     \* 12 hours before the start: older after a tick
      StartTime }

TrialEndTimes ==
    { StartTime - 2 * ClockStep,                \* expired 2 minutes before the start
      StartTime + 3 * ClockStep,                \* ends 3 minutes after the start
      StartTime + TrialSoon }                   \* one hour ahead: nearer after a tick

Plans == { [trialEndAt |-> {}] } \cup { [trialEndAt |-> {t}] : t \in TrialEndTimes }

Users ==
    [ lastLoginAt : {{}} \cup { {t} : t \in LastLoginTimes },
      plan : {{}} \cup { {p} : p \in Plans } ]

\* selectors.currentUserPlanSelector(state)
currentUserPlanSelector(u) == IF u = {} THEN {} ELSE Some(u).plan

\* plan && plan.trialEndAt, as an optional instant
TrialEndOf(u) ==
    LET plan == currentUserPlanSelector(u)
    IN  IF plan = {} THEN {} ELSE Some(plan).trialEndAt

(***************************************************************************)
(* The decision policy of one loop iteration of init(), lines 89-141.      *)
(***************************************************************************)
\* line 95: !(appToken && isLogged && user)
SessionMissing(tok, logged, u) == ~(tok # {} /\ logged /\ u # {})

\* line 96, given line 95 did not wait: !user.lastLoginAt
LastLoginMissing(u) == Some(u).lastLoginAt = {}

Elapsed(t, u) == t - Some(Some(u).lastLoginAt)

\* lines 101-106
ShouldReload(t, canReload, u) == canReload /\ Elapsed(t, u) > ReloadAfter

\* lines 111-114
ShouldRefresh(t, canReload, u) ==
    /\ ~ShouldReload(t, canReload, u)
    /\ Elapsed(t, u) > RefreshAfter

JustExpiredNoWindow(t, u) ==
    /\ TrialEndOf(u) # {}
    /\ t >= Some(TrialEndOf(u))

\* lines 119-124, as a condition on trialEndAt alone
JustExpired(t, u) ==
    /\ TrialEndOf(u) # {}
    /\ t >= Some(TrialEndOf(u))
    /\ t - Some(TrialEndOf(u)) < ExpiredWindow

\* the "plan just expired" test placed before the 12-hour test
ShouldReloginExpiredFirst(t, canReload, u) ==
    /\ ~ShouldReload(t, canReload, u)
    /\ JustExpired(t, u)

\* lines 119-124, reached only when the two branches before it were not taken
ShouldReloginExpired(t, canReload, u) ==
    /\ ~ShouldReload(t, canReload, u)
    /\ ~(Elapsed(t, u) > RefreshAfter)
    /\ JustExpired(t, u)

\* lines 131-136
ExpiresSoon(t, u) ==
    /\ TrialEndOf(u) # {}
    /\ Some(TrialEndOf(u)) > t
    /\ Some(TrialEndOf(u)) - t < TrialSoon

\* line 137: the argument of delay() when the plan expires within the hour
SoonDelay(t, trialEndAt) == t - trialEndAt + TrialSlack

\* lines 131-140: the argument of the delay() that ends the iteration
GenericDelay(t, u) ==
    IF ExpiresSoon(t, u) THEN SoonDelay(t, Some(TrialEndOf(u))) ELSE HourDelay

\* delay(ms): setTimeout fires no earlier than ms from now; a negative ms is
\* treated as 0
TimerAt(t, ms) == IF ms > 0 THEN t + ms ELSE t

Iteration(rule, requests, delays) ==
    [rule |-> rule, requests |-> requests, delays |-> delays]

NoIteration == Iteration("none", <<>>, <<>>)

\* the ghost counter of "plan just expired" iterations follows one trialEndAt
HitsAfterStore(u2) == IF TrialEndOf(u2) = TrialEndOf(user) THEN expiredHits ELSE 0

(***************************************************************************)
(* KeeperSpec: initial state.  The process has just started; the store is  *)
(* empty or holds a rehydrated session; init() is at its first take.       *)
(***************************************************************************)
KeeperInit ==
    /\ now = StartTime
    /\ reloadable \in BOOLEAN
    /\ \/ appToken = {} /\ isLogged = FALSE /\ user = {}
       \/ \E tok \in Tokens, u \in Users :
            appToken = {tok} /\ isLogged = TRUE /\ user = {u}
    /\ kpc = "takeFirst"
    /\ wakeAt = StartTime
    /\ kLast = NoIteration
    /\ expiredHits = 0
    /\ reloadPending = FALSE
    /\ mode = "backend"
    /\ pending = <<>>
    /\ log = <<>>
    /\ exchanges = <<>>
    /\ uncaught = {}
    /\ rehydrated = FALSE
    /\ deletions = <<>>
    /\ patCalls = <<>>
    /\ patLoadingState = {}
    /\ isExecutingOAuth = FALSE

(***************************************************************************)
(* Environment of the keeper: the store's reducers and the clock.          *)
(***************************************************************************)
\* LOGIN_SUCCESS: the store takes the session; a keeper blocked in
\* take('LOGIN_SUCCESS') resumes (line 87 or line 95, then line 96 continues)
LoginSuccess(tok, u) ==
    /\ appToken' = {tok}
    /\ isLogged' = TRUE
    /\ user' = {u}
    /\ expiredHits' = HitsAfterStore({u})
    /\ kpc' = IF kpc \in {"takeFirst", "takeLogin"} THEN "select" ELSE kpc
    /\ UNCHANGED <<now, reloadable, wakeAt, kLast, reloadPending,
                   exchangeVars, deleteVars, patVars>>

\* LOGOUT: the session is destroyed
Logout ==
    /\ appToken # {} \/ user # {}
    /\ appToken' = {}
    /\ isLogged' = FALSE
    /\ user' = {}
    /\ expiredHits' = HitsAfterStore({})
    /\ UNCHANGED <<now, reloadable, kpc, wakeAt, kLast, reloadPending,
                   exchangeVars, deleteVars, patVars>>

\* UPDATE_USER_DATA: the plan of the logged user is replaced
UpdateUserData(p) ==
    /\ user # {}
    /\ Some(user).plan # {p}
    /\ user' = {[Some(user) EXCEPT !.plan = {p}]}
    /\ expiredHits' = HitsAfterStore(user')
    /\ UNCHANGED <<now, reloadable, appToken, isLogged, kpc, wakeAt, kLast, reloadPending,
                   exchangeVars, deleteVars, patVars>>

\* the clock advances; a timer may fire late but never early
Tick ==
    /\ now + ClockStep <= MaxNow
    /\ now' = now + ClockStep
    /\ UNCHANGED <<reloadable, appToken, isLogged, user, kpc, wakeAt, kLast,
                   expiredHits, reloadPending,
                   exchangeVars, deleteVars, patVars>>

\* the delay() of the keeper elapses
TimerFires ==
    /\ kpc = "sleeping"
    /\ now >= wakeAt
    /\ kpc' = "select"
    /\ UNCHANGED <<now, reloadable, appToken, isLogged, user, wakeAt, kLast,
                   expiredHits, reloadPending,
                   exchangeVars, deleteVars, patVars>>

\* the reload requested by window.location.reload() happens: the process
\* starts again with the persisted store
PageReloaded ==
    /\ reloadPending
    /\ reloadPending' = FALSE
    /\ kpc' = "takeFirst"
    /\ wakeAt' = now
    /\ kLast' = NoIteration
    /\ expiredHits' = 0
    /\ UNCHANGED <<now, reloadable, appToken, isLogged, user,
                   exchangeVars, deleteVars, patVars>>

(***************************************************************************)
(* One iteration of the while loop of init(), from select() to the next    *)
(* suspension point.                                                       *)
(***************************************************************************)
Sleep(ms) == kpc' = "sleeping" /\ wakeAt' = TimerAt(now, ms)

\* a keeper that sleeps for an hour where line 95 takes LOGIN_SUCCESS
KeeperAwaitSleeps ==
    /\ kpc = "select"
    /\ SessionMissing(appToken, isLogged, user)
    /\ kLast' = Iteration("await", <<>>, <<HourDelay>>)
    /\ Sleep(HourDelay)
    /\ UNCHANGED <<now, reloadable, appToken, isLogged, user, expiredHits,
                   reloadPending,
                   exchangeVars, deleteVars, patVars>>

\* line 95: a part of the session is missing: wait for LOGIN_SUCCESS
KeeperAwait ==
    /\ kpc = "select"
    /\ SessionMissing(appToken, isLogged, user)
    /\ kpc' = "takeLogin"
    /\ kLast' = Iteration("await", <<>>, <<>>)
    /\ UNCHANGED <<now, reloadable, appToken, isLogged, user, wakeAt, expiredHits,
                   reloadPending,
                   exchangeVars, deleteVars, patVars>>

\* line 96: lastLoginAt is unset: continue
KeeperRestart ==
    /\ kpc = "select"
    /\ ~SessionMissing(appToken, isLogged, user)
    /\ LastLoginMissing(user)
    /\ kpc' = "select"
    /\ kLast' = Iteration("restart", <<>>, <<>>)
    /\ UNCHANGED <<now, reloadable, appToken, isLogged, user, wakeAt, expiredHits,
                   reloadPending,
                   exchangeVars, deleteVars, patVars>>

KeeperReady ==
    /\ kpc = "select"
    /\ ~SessionMissing(appToken, isLogged, user)
    /\ ~LastLoginMissing(user)

\* lines 101-108, then 131-140
KeeperReload ==
    /\ KeeperReady
    /\ ShouldReload(now, reloadable, user)
    /\ reloadPending' = TRUE
    /\ kLast' = Iteration("reload", <<>>, <<GenericDelay(now, user)>>)
    /\ Sleep(GenericDelay(now, user))
    /\ UNCHANGED <<now, reloadable, appToken, isLogged, user, expiredHits,
                   exchangeVars, deleteVars, patVars>>

\* a refresh that sends the token persisted at start, not the selected one
KeeperRefreshPersistedToken ==
    /\ KeeperReady
    /\ ShouldRefresh(now, reloadable, user)
    /\ kLast' = Iteration("refresh", <<"t1">>, <<GenericDelay(now, user)>>)
    /\ Sleep(GenericDelay(now, user))
    /\ UNCHANGED <<now, reloadable, appToken, isLogged, user, expiredHits, reloadPending,
                   exchangeVars, deleteVars, patVars>>

\* lines 111-116, then 131-140
KeeperRefresh ==
    /\ KeeperReady
    /\ ShouldRefresh(now, reloadable, user)
    /\ kLast' = Iteration("refresh", <<Some(appToken)>>, <<GenericDelay(now, user)>>)
    /\ Sleep(GenericDelay(now, user))
    /\ UNCHANGED <<now, reloadable, appToken, isLogged, user, expiredHits, reloadPending,
                   exchangeVars, deleteVars, patVars>>

\* lines 119-126 without the `continue` of line 127
KeeperExpiredFallsThrough ==
    /\ KeeperReady
    /\ ShouldReloginExpired(now, reloadable, user)
    /\ kLast' = Iteration("expired", <<Some(appToken)>>,
                          <<ExpiredDelay, GenericDelay(now + ExpiredDelay, user)>>)
    /\ Sleep(ExpiredDelay + GenericDelay(now + ExpiredDelay, user))
    /\ expiredHits' = expiredHits + 1
    /\ UNCHANGED <<now, reloadable, appToken, isLogged, user, reloadPending,
                   exchangeVars, deleteVars, patVars>>

\* lines 119-128
KeeperExpired ==
    /\ KeeperReady
    /\ ShouldReloginExpired(now, reloadable, user)
    /\ kLast' = Iteration("expired", <<Some(appToken)>>, <<ExpiredDelay>>)
    /\ Sleep(ExpiredDelay)
    /\ expiredHits' = expiredHits + 1
    /\ UNCHANGED <<now, reloadable, appToken, isLogged, user, reloadPending,
                   exchangeVars, deleteVars, patVars>>

\* none of the three branches: lines 131-140 only
KeeperIdle ==
    /\ KeeperReady
    /\ ~ShouldReload(now, reloadable, user)
    /\ ~ShouldRefresh(now, reloadable, user)
    /\ ~ShouldReloginExpired(now, reloadable, user)
    /\ kLast' = Iteration("idle", <<>>, <<GenericDelay(now, user)>>)
    /\ Sleep(GenericDelay(now, user))
    /\ UNCHANGED <<now, reloadable, appToken, isLogged, user, expiredHits, reloadPending,
                   exchangeVars, deleteVars, patVars>>

KeeperIteration ==
    \/ KeeperAwait
    \/ KeeperRestart
    \/ KeeperReload
    \/ KeeperRefresh
    \/ KeeperExpired
    \/ KeeperIdle

KeeperNext ==
    \/ \E tok \in Tokens, u \in Users : LoginSuccess(tok, u)
    \/ Logout
    \/ \E p \in Plans : UpdateUserData(p)
    \/ Tick
    \/ TimerFires
    \/ PageReloaded
    \/ KeeperAwait
    \/ KeeperRestart
    \/ KeeperReload
    \/ KeeperRefresh
    \/ KeeperExpired
    \/ KeeperIdle

KeeperSpec == KeeperInit /\ [][KeeperNext]_vars

(***************************************************************************)
(* Values that cross the network boundary of onLoginRequest.               *)
(*                                                                         *)
(* A response body is a record of the members the code reads; a member     *)
(* that is undefined, null or missing is {}.  `text` marks a body that is  *)
(* a string and not an object.                                             *)
(***************************************************************************)
\* one entry of a GraphQL errors array: message and extensions.code ("" if none)
GraphQLErrorItem(message, code) == [message |-> message, code |-> code]

\* data.login.user of the login query; githubUserId is user.github.user.id
LoginUser(id, githubUserId) == [_id |-> id, githubUserId |-> githubUserId]

\* data.login of the login query
LoginData(token, u) == [appToken |-> token, user |-> u]

\* the `data` member of a GraphQL response body
GraphQLData(login) == [login |-> login, errors |-> {}]

Body(text, data, errors, id) ==
    [text |-> text, data |-> data, errors |-> errors, id |-> id, status |-> {}]

\* a GraphQL body {data: {login}} with an optional errors array
LoginBody(login, errors) == Body(FALSE, {GraphQLData(login)}, errors, {})

\* a GraphQL body {data: null, errors}
ErrorBody(errors) == Body(FALSE, {}, {errors}, {})

UnauthenticatedErrors == << GraphQLErrorItem("Not logged", "UNAUTHENTICATED") >>
OtherErrors == << GraphQLErrorItem("Internal error", "") >>

\* bodies of a response that resolves the awaited call
Bodies ==
    { LoginBody({LoginData("t1", {LoginUser("u1", {7})})}, {}),
      LoginBody({LoginData("s1", {LoginUser("u2", {8})})}, {<<>>}),  \* empty errors array
      LoginBody({LoginData("", {LoginUser("u1", {7})})}, {}),       \* no appToken
      LoginBody({LoginData("s1", {LoginUser("u1", {})})}, {}),      \* no github user id
      LoginBody({LoginData("s1", {})}, {}),                         \* no user
      LoginBody({}, {}),                                            \* login: null
      ErrorBody(UnauthenticatedErrors),
      ErrorBody(OtherErrors),
      Body(FALSE, {}, {}, {7}),           \* GET /user of GitHub: {id: 7, login, ...}
      Body(TRUE, {}, {}, {}) }            \* a string, such as "OK"

\* bodies of a response that rejects it
FailureBodies ==
    { ErrorBody(UnauthenticatedErrors),
      ErrorBody(OtherErrors),
      ErrorBody(<<>>),                    \* {errors: []}
      Body(FALSE, {}, {}, {}),            \* {message: "Bad credentials"}: no member read
      Body(TRUE, {}, {}, {}) }            \* a string, such as "Unauthorized"

\* a thrown or rejected value; response is error.response: {status, data}
Thrown(isObject, isError, name, message, response) ==
    [isObject |-> isObject, isError |-> isError, name |-> name,
     message |-> message, response |-> response]

NewError(message) == Thrown(TRUE, TRUE, "Error", message, {})

TypeError(message) == Thrown(TRUE, TRUE, "TypeError", message, {})

HttpResponse(status, data) == [status |-> status, data |-> data]

SuccessStatuses == {200}
FailureStatuses == {401, 403}

\* what the awaited call (axios.post, octokit.users.getAuthenticated) ends in:
\* it resolves with a response, or rejects with a value
Outcomes ==
    { [resolved |-> TRUE, response |-> {HttpResponse({st}, d)}, error |-> {}] :
        st \in SuccessStatuses, d \in {{}} \cup { {b} : b \in Bodies } }
    \cup
    { [resolved |-> FALSE, response |-> {},
       error |-> {Thrown(TRUE, TRUE, "Error", "Request failed",
                         {HttpResponse({st}, d)})}] :
        st \in FailureStatuses, d \in {{}} \cup { {b} : b \in FailureBodies } }
    \cup
    { [resolved |-> FALSE, response |-> {}, error |-> {e}] :
        e \in { Thrown(TRUE, TRUE, "Error", "Network Error", {}),  \* no response
                Thrown(TRUE, FALSE, "", "Canceled", {}),           \* an object, not an Error
                Thrown(TRUE, FALSE, "", "Forbidden",               \* the same, with a response
                       {HttpResponse({403}, {ErrorBody(OtherErrors)})}),
                Thrown(FALSE, FALSE, "", "", {}) } }               \* a string

(***************************************************************************)
(* createGraphQLError, lines 57-69.  `response` is {data, status, errors}. *)
(***************************************************************************)
createGraphQLErrorWithoutStatus(message, response) ==
    Thrown(TRUE, TRUE, "Error", message,
           { HttpResponse({}, { Body(FALSE, {}, response.errors, {}) }) })

createGraphQLError(message, response) ==
    Thrown(TRUE, TRUE, "Error", message,
           { HttpResponse(
               response.status,
               { Body(FALSE, {},
                      IF response.errors # {} /\ Len(Some(response.errors)) > 0
                      THEN response.errors
                      ELSE { << GraphQLErrorItem("Unknown GraphQL error", "") >> },
                      {}) }) })

(***************************************************************************)
(* isGraphQLErrorResponse, lines 71-84.                                    *)
(***************************************************************************)
isGraphQLErrorResponse(error) ==
    /\ error.isObject
    /\ error.response # {}
    /\ Some(error.response).data # {}
    /\ ~Some(Some(error.response).data).text
    /\ Some(Some(error.response).data).errors # {}
    /\ Some(error.response).status # {}

(***************************************************************************)
(* onLoginRequest, lines 151-388, after the awaited call has ended.        *)
(* The try block gives the action it puts, or the value it throws.         *)
(***************************************************************************)
Action(type, token, u, error, task, cause) ==
    [type |-> type, appToken |-> token, user |-> u, error |-> error,
     task |-> task, cause |-> cause, tokenDetails |-> {}]

loginRequest(token, cause) == Action("LOGIN_REQUEST", {token}, {}, {}, 0, cause)
loginSuccess(token, u, task) == Action("LOGIN_SUCCESS", {token}, {u}, {}, task, 0)
loginFailure(error, task) == Action("LOGIN_FAILURE", {}, {}, {error}, task, 0)
logout(cause) == Action("LOGOUT", {}, {}, {}, 0, cause)
cleanupArchivedItems(cause) == Action("CLEANUP_ARCHIVED_ITEMS", {}, {}, {}, 0, cause)
rehydrate == Action("REHYDRATE", {}, {}, {}, 0, 0)

Put(a) == [put |-> {a}, throw |-> {}]
Throw(e) == [put |-> {}, throw |-> {e}]

\* lines 159-224: the user built from GET /user
DirectUser(data) ==
    LoginUser(IF data.id = {} THEN "github_undefined"
              ELSE "github_" \o ToString(Some(data.id)),
              data.id)

\* lines 157-225
TryDirect(token, task, outcome) ==
    IF ~outcome.resolved THEN Throw(Some(outcome.error))
    ELSE LET response == Some(outcome.response)
         IN  IF response.data = {}
             THEN Throw(NewError("Invalid response from GitHub API"))
             ELSE Put(loginSuccess(token, DirectUser(Some(response.data)), task))

\* lines 358-369: the response has login.appToken and login.user.github.user.id
LoginComplete(body) ==
    /\ body.data # {}
    /\ Some(body.data).login # {}
    /\ Some(Some(body.data).login).appToken # ""
    /\ Some(Some(body.data).login).user # {}
    /\ Some(Some(Some(body.data).login).user).githubUserId # {}

\* line 373, lines 228-373
SuccessFromLogin(token, login, task) == loginSuccess(token, Some(login.user), task)

TryBackend(token, task, outcome) ==
    IF ~outcome.resolved THEN Throw(Some(outcome.error))
    ELSE LET response == Some(outcome.response)
         IN  IF response.data = {}
             THEN Throw(TypeError("Cannot destructure property 'data'"))
             ELSE LET body == Some(response.data)
                  IN  IF body.text THEN Throw(NewError("Invalid response"))
                      ELSE IF body.errors # {} /\ Len(Some(body.errors)) > 0
                      THEN Throw(createGraphQLError("GraphQL Error",
                                   [data |-> body, status |-> response.status,
                                    errors |-> body.errors]))
                      ELSE IF ~LoginComplete(body) THEN Throw(NewError("Invalid response"))
                      ELSE Put(SuccessFromLogin(token, Some(Some(body.data).login), task))

\* lines 379-384
AuthError(name, message, status, response) ==
    [name |-> name, message |-> message, status |-> status, response |-> response]

\* lines 374-387
CatchLoginRethrowsNonError(error, task) ==
    IF error.isError
    THEN Put(loginFailure(AuthError(error.name, error.message, {}, {}), task))
    ELSE Throw(error)

\* a catch block that copies the status of any response, GraphQL-shaped or not
CatchLoginStatusOfAnyResponse(error, task) ==
    LET err == IF error.isError THEN error ELSE NewError("Unknown error")
    IN  Put(loginFailure(
              AuthError(err.name, err.message,
                        IF error.response # {}
                        THEN Some(error.response).status ELSE {},
                        IF isGraphQLErrorResponse(error)
                        THEN Some(error.response).data ELSE {}),
              task))

CatchLogin(error, task) ==
    LET err == IF error.isError THEN error ELSE NewError("Unknown error")
    IN  Put(loginFailure(
              AuthError(err.name, err.message,
                        IF isGraphQLErrorResponse(error)
                        THEN Some(error.response).status ELSE {},
                        IF isGraphQLErrorResponse(error)
                        THEN Some(error.response).data ELSE {}),
              task))

\* lines 151-388
onLoginRequest(flag, token, task, outcome) ==
    LET tried == IF flag = "direct" THEN TryDirect(token, task, outcome)
                 ELSE TryBackend(token, task, outcome)
    IN  IF tried.throw = {} THEN tried ELSE CatchLogin(Some(tried.throw), task)

(***************************************************************************)
(* onLoginFailure, lines 433-450: the login failure forces a logout.       *)
(***************************************************************************)
SomeUnauthenticated(errors) ==
    \E i \in 1..Len(errors) : errors[i].code = "UNAUTHENTICATED"

ForcesLogoutOnAnyStatus(error) ==
    /\ error # {}
    /\ Some(error).status # {}

ForcesLogout(error) ==
    /\ error # {}
    /\ \/ Some(error).status = {401}
       \/ /\ Some(error).response # {}
          /\ \/ Some(Some(error).response).status = {401}
             \/ /\ Some(Some(error).response).data # {}
                /\ Some(Some(Some(error).response).data).errors # {}
                /\ SomeUnauthenticated(Some(Some(Some(Some(error).response).data).errors))

\* the actions onLoginFailure puts in reaction to the delivered action `a`,
\* the i-th of the log
onLoginFailure(a, i) == IF ForcesLogout(a.error) THEN << logout(i) >> ELSE <<>>

\* a reaction that puts the login request twice
onRehydrateTwice(token, i) ==
    IF token = {} THEN <<>>
    ELSE << loginRequest(Some(token), i), loginRequest(Some(token), i) >>

\* onRehydrate, lines 144-149
onRehydrate(token, i) == IF token = {} THEN <<>> ELSE << loginRequest(Some(token), i) >>

\* onLoginSuccess, lines 390-405
onLoginSuccess(i) == << cleanupArchivedItems(i) >>

(***************************************************************************)
(* The dispatcher of authSagas, lines 526-542.  Actions are delivered one  *)
(* at a time, in the order they were put; a delivery runs the reducers and *)
(* then every watcher of the action's type up to its next suspension.      *)
(***************************************************************************)
\* a task of onLoginRequest: the token of its request, the place of the request
\* in the log, and the HTTP status its awaited call was answered with
Exchange(token, request) ==
    [appToken |-> token, status |-> "inflight", request |-> request, answered |-> {}]

AnsweredStatus(outcome) ==
    IF outcome.resolved THEN Some(outcome.response).status
    ELSE IF Some(outcome.error).response = {} THEN {}
    ELSE Some(Some(outcome.error).response).status

CancelRunning(tasks) ==
    [k \in DOMAIN tasks |->
        IF tasks[k].status = "inflight" THEN [tasks[k] EXCEPT !.status = "cancelled"]
        ELSE tasks[k]]

takeEvery(tasks, task) == Append(tasks, task)

\* takeLatest('LOGIN_REQUEST', onLoginRequest), line 528: the task of the
\* previous request is cancelled before the new one is forked
takeLatest(tasks, task) == Append(CancelRunning(tasks), task)

Init ==
    /\ mode \in {"direct", "backend"}
    /\ \/ appToken = {} /\ isLogged = FALSE /\ user = {}
       \/ appToken = {"t1"} /\ isLogged = TRUE /\ user = {LoginUser("u1", {7})}
    /\ pending = <<>>
    /\ log = <<>>
    /\ exchanges = <<>>
    /\ uncaught = {}
    /\ rehydrated = FALSE
    /\ now = StartTime
    /\ reloadable = FALSE
    /\ kpc = "takeFirst"
    /\ wakeAt = StartTime
    /\ kLast = NoIteration
    /\ expiredHits = 0
    /\ reloadPending = FALSE
    /\ deletions = <<>>
    /\ patCalls = <<>>
    /\ patLoadingState = {}
    /\ isExecutingOAuth = FALSE

Deliver(puts) ==
    /\ log' = Append(log, Head(pending))
    /\ pending' = Tail(pending) \o puts

Delivering(type) == pending # <<>> /\ Head(pending).type = type

\* the UI dispatches a login request (LoginHelpersContext.tsx lines 134, 270, 299)
UiLoginRequest(token) ==
    /\ pending = <<>>
    /\ Len(exchanges) < MaxRequests
    /\ pending' = << loginRequest(token, 0) >>
    /\ UNCHANGED <<storeVars, mode, log, exchanges, uncaught, rehydrated, keeperOnlyVars, deleteVars, patVars>>

\* the user logs out
UiLogout ==
    /\ pending = <<>>
    /\ appToken # {}
    /\ pending' = << logout(0) >>
    /\ UNCHANGED <<storeVars, mode, log, exchanges, uncaught, rehydrated, keeperOnlyVars, deleteVars, patVars>>

\* redux-persist dispatches REHYDRATE, once, when the process starts
Rehydrate ==
    /\ pending = <<>>
    /\ log = <<>>
    /\ exchanges = <<>>
    /\ ~rehydrated
    /\ rehydrated' = TRUE
    /\ pending' = << rehydrate >>
    /\ UNCHANGED <<storeVars, mode, log, exchanges, uncaught, keeperOnlyVars, deleteVars, patVars>>

\* LOGIN_REQUEST is delivered: line 528
DispatchLoginRequest ==
    /\ Delivering("LOGIN_REQUEST")
    /\ exchanges' = takeLatest(exchanges,
                               Exchange(Some(Head(pending).appToken), Len(log) + 1))
    /\ Deliver(<<>>)
    /\ UNCHANGED <<storeVars, mode, uncaught, rehydrated, keeperOnlyVars, deleteVars, patVars>>

\* the awaited call of the running exchange k ends in `outcome`; the rest of
\* onLoginRequest runs
Complete(k, outcome) ==
    /\ pending = <<>>
    /\ exchanges[k].status = "inflight"
    /\ LET result == onLoginRequest(mode, exchanges[k].appToken, k, outcome)
       IN  /\ pending' = IF result.put = {} THEN <<>> ELSE << Some(result.put) >>
           /\ uncaught' = uncaught \cup { [task |-> k, error |-> e] : e \in result.throw }
    /\ exchanges' = [exchanges EXCEPT ![k].status = "done",
                                      ![k].answered = AnsweredStatus(outcome)]
    /\ UNCHANGED <<storeVars, mode, log, rehydrated, keeperOnlyVars, deleteVars, patVars>>

\* the awaited call of a cancelled exchange ends: its task no longer runs
Discard(k) ==
    /\ pending = <<>>
    /\ exchanges[k].status = "cancelled"
    /\ exchanges' = [exchanges EXCEPT ![k].status = "discarded"]
    /\ UNCHANGED <<storeVars, mode, pending, log, uncaught, rehydrated, keeperOnlyVars, deleteVars, patVars>>

\* LOGIN_SUCCESS is delivered: the store takes the session; line 529
DispatchLoginSuccess ==
    /\ Delivering("LOGIN_SUCCESS")
    /\ appToken' = Head(pending).appToken
    /\ user' = Head(pending).user
    /\ isLogged' = TRUE
    /\ Deliver(onLoginSuccess(Len(log) + 1))
    /\ UNCHANGED <<mode, exchanges, uncaught, rehydrated, keeperOnlyVars, deleteVars, patVars>>

\* LOGIN_FAILURE is delivered: line 530
DispatchLoginFailure ==
    /\ Delivering("LOGIN_FAILURE")
    /\ Deliver(onLoginFailure(Head(pending), Len(log) + 1))
    /\ UNCHANGED <<storeVars, mode, exchanges, uncaught, rehydrated, keeperOnlyVars, deleteVars, patVars>>

\* LOGOUT is delivered: the session is destroyed; onLogout, lines 452-455 and 534
DispatchLogout ==
    /\ Delivering("LOGOUT")
    /\ appToken' = {}
    /\ user' = {}
    /\ isLogged' = FALSE
    /\ Deliver(<<>>)
    /\ UNCHANGED <<mode, exchanges, uncaught, rehydrated, keeperOnlyVars, deleteVars, patVars>>

\* REHYDRATE is delivered: line 535
DispatchRehydrate ==
    /\ Delivering("REHYDRATE")
    /\ Deliver(onRehydrate(appToken, Len(log) + 1))
    /\ UNCHANGED <<storeVars, mode, exchanges, uncaught, rehydrated, keeperOnlyVars, deleteVars, patVars>>

\* an action no saga of this file reacts to
DispatchOther ==
    /\ Delivering("CLEANUP_ARCHIVED_ITEMS")
    /\ Deliver(<<>>)
    /\ UNCHANGED <<storeVars, mode, exchanges, uncaught, rehydrated, keeperOnlyVars, deleteVars, patVars>>

Next ==
    \/ \E token \in UiTokens : UiLoginRequest(token)
    \/ UiLogout
    \/ Rehydrate
    \/ DispatchLoginRequest
    \/ \E k \in DOMAIN exchanges, outcome \in Outcomes : Complete(k, outcome)
    \/ \E k \in DOMAIN exchanges : Discard(k)
    \/ DispatchLoginSuccess
    \/ DispatchLoginFailure
    \/ DispatchLogout
    \/ DispatchRehydrate
    \/ DispatchOther

Spec == Init /\ [][Next]_vars

(***************************************************************************)
(* The delete-account reactions: onDeleteAccountRequest (lines 457-508),   *)
(* onDeleteAccountFailure (510-520), onDeleteAccountSuccess (522-524) and  *)
(* their takeLatest watchers (531-533).                                    *)
(***************************************************************************)
\* data.deleteAccount of the mutation's answer: a JavaScript value, by its
\* typeof and its truthiness
DeleteAnswer(type, truthy) == [type |-> type, truthy |-> truthy]

DeleteAnswers ==
    { DeleteAnswer("boolean", TRUE),
      DeleteAnswer("boolean", FALSE),
      DeleteAnswer("object", FALSE),        \* null
      DeleteAnswer("string", TRUE) }        \* "true"

\* a GraphQL body {data: {deleteAccount}} with an optional errors array
DeleteBody(answer, errors) == Body(FALSE, {[deleteAccount |-> answer]}, errors, {})

DeleteBodies ==
    { DeleteBody(a, {}) : a \in DeleteAnswers }
    \cup
    { DeleteBody(DeleteAnswer("boolean", TRUE), {<<>>}),            \* empty errors array
      DeleteBody(DeleteAnswer("boolean", TRUE), {OtherErrors}),     \* true, with errors
      ErrorBody(UnauthenticatedErrors),
      Body(FALSE, {}, {}, {}),              \* {data: null}
      Body(TRUE, {}, {}, {}) }              \* a string

\* what axios.post of the deleteAccount mutation ends in
DeleteOutcomes ==
    { [resolved |-> TRUE, response |-> {HttpResponse({st}, d)}, error |-> {}] :
        st \in SuccessStatuses, d \in {{}} \cup { {b} : b \in DeleteBodies } }
    \cup
    { [resolved |-> FALSE, response |-> {},
       error |-> {Thrown(TRUE, TRUE, "Error", "Request failed",
                         {HttpResponse({401}, d)})}] :
        d \in { {}, {ErrorBody(UnauthenticatedErrors)}, {Body(TRUE, {}, {}, {})} } }
    \cup
    { [resolved |-> FALSE, response |-> {}, error |-> {e}] :
        e \in { Thrown(TRUE, TRUE, "Error", "Network Error", {}),
                Thrown(TRUE, FALSE, "", "Canceled", {}) } }

deleteAccountRequest == Action("DELETE_ACCOUNT_REQUEST", {}, {}, {}, 0, 0)
deleteAccountSuccess(task) == Action("DELETE_ACCOUNT_SUCCESS", {}, {}, {}, task, 0)
deleteAccountFailure(error, task) == Action("DELETE_ACCOUNT_FAILURE", {}, {}, {error}, task, 0)

\* lines 478-496 without the typeof test of line 488
TryDeleteAnyTruthy(task, outcome) ==
    IF ~outcome.resolved THEN Throw(Some(outcome.error))
    ELSE LET response == Some(outcome.response)
         IN  IF response.data = {}
             THEN Throw(TypeError("Cannot destructure property 'data'"))
             ELSE LET body == Some(response.data)
                  IN  IF ~body.text /\ body.errors # {} /\ Len(Some(body.errors)) > 0
                      THEN Throw(createGraphQLError("GraphQL Error",
                                   [data |-> body, status |-> response.status,
                                    errors |-> body.errors]))
                      ELSE IF body.text \/ body.data = {}
                      THEN Throw(NewError("Invalid response"))
                      ELSE IF ~Some(body.data).deleteAccount.truthy
                      THEN Throw(NewError("Failed to delete account"))
                      ELSE Put(deleteAccountSuccess(task))

\* lines 461-496: the try block, after axios.post has ended
TryDelete(task, outcome) ==
    IF ~outcome.resolved THEN Throw(Some(outcome.error))
    ELSE LET response == Some(outcome.response)
         IN  IF response.data = {}
             THEN Throw(TypeError("Cannot destructure property 'data'"))
             ELSE LET body == Some(response.data)
                  IN  IF ~body.text /\ body.errors # {} /\ Len(Some(body.errors)) > 0
                      THEN Throw(createGraphQLError("GraphQL Error",
                                   [data |-> body, status |-> response.status,
                                    errors |-> body.errors]))
                      ELSE IF \/ body.text
                              \/ body.data = {}
                              \/ Some(body.data).deleteAccount.type # "boolean"
                      THEN Throw(NewError("Invalid response"))
                      ELSE IF ~Some(body.data).deleteAccount.truthy
                      THEN Throw(NewError("Failed to delete account"))
                      ELSE Put(deleteAccountSuccess(task))

\* lines 497-507
CatchDelete(error, task) ==
    LET err == IF error.isError THEN error ELSE NewError("Unknown error")
    IN  Put(deleteAccountFailure(
              IF isGraphQLErrorResponse(error) THEN error ELSE NewError(err.message),
              task))

\* lines 457-508
onDeleteAccountRequest(task, outcome) ==
    LET tried == TryDelete(task, outcome)
    IN  IF tried.throw = {} THEN tried ELSE CatchDelete(Some(tried.throw), task)

\* onDeleteAccountSuccess, lines 522-524
onDeleteAccountSuccess(i) == << logout(i) >>

\* onDeleteAccountFailure, lines 510-520: a crash report and an alert, no action
onDeleteAccountFailure(i) == <<>>

\* a task of onDeleteAccountRequest: the token it selected (line 458) and the
\* place of its request in the log
Deletion(token, request) ==
    [appToken |-> token, status |-> "inflight", request |-> request]

DeleteInit ==
    /\ mode = "backend"
    /\ \/ appToken = {} /\ isLogged = FALSE /\ user = {}
       \/ appToken = {"t1"} /\ isLogged = TRUE /\ user = {LoginUser("u1", {7})}
    /\ pending = <<>>
    /\ log = <<>>
    /\ exchanges = <<>>
    /\ uncaught = {}
    /\ rehydrated = FALSE
    /\ now = StartTime
    /\ reloadable = FALSE
    /\ kpc = "takeFirst"
    /\ wakeAt = StartTime
    /\ kLast = NoIteration
    /\ expiredHits = 0
    /\ reloadPending = FALSE
    /\ deletions = <<>>
    /\ patCalls = <<>>
    /\ patLoadingState = {}
    /\ isExecutingOAuth = FALSE

\* the UI dispatches a delete-account request
UiDeleteAccountRequest ==
    /\ pending = <<>>
    /\ Len(deletions) < MaxRequests
    /\ pending' = << deleteAccountRequest >>
    /\ UNCHANGED <<storeVars, mode, log, exchanges, uncaught, rehydrated, keeperOnlyVars,
                   deleteVars, patVars>>

\* DELETE_ACCOUNT_REQUEST is delivered: line 531
DispatchDeleteAccountRequest ==
    /\ Delivering("DELETE_ACCOUNT_REQUEST")
    /\ deletions' = takeLatest(deletions, Deletion(appToken, Len(log) + 1))
    /\ Deliver(<<>>)
    /\ UNCHANGED <<storeVars, mode, exchanges, uncaught, rehydrated, keeperOnlyVars,
                   patVars>>

\* axios.post of the running task k ends in `outcome`; the rest of
\* onDeleteAccountRequest runs
CompleteDelete(k, outcome) ==
    /\ pending = <<>>
    /\ deletions[k].status = "inflight"
    /\ LET result == onDeleteAccountRequest(k, outcome)
       IN  /\ pending' = IF result.put = {} THEN <<>> ELSE << Some(result.put) >>
           /\ uncaught' = uncaught \cup { [task |-> k, error |-> e] : e \in result.throw }
    /\ deletions' = [deletions EXCEPT ![k].status = "done"]
    /\ UNCHANGED <<storeVars, mode, log, exchanges, rehydrated, keeperOnlyVars, patVars>>

\* axios.post of a cancelled task ends: the task no longer runs
DiscardDelete(k) ==
    /\ pending = <<>>
    /\ deletions[k].status = "cancelled"
    /\ deletions' = [deletions EXCEPT ![k].status = "discarded"]
    /\ UNCHANGED <<storeVars, mode, pending, log, exchanges, uncaught, rehydrated,
                   keeperOnlyVars, patVars>>

\* DELETE_ACCOUNT_SUCCESS is delivered: line 532
DispatchDeleteAccountSuccess ==
    /\ Delivering("DELETE_ACCOUNT_SUCCESS")
    /\ Deliver(onDeleteAccountSuccess(Len(log) + 1))
    /\ UNCHANGED <<storeVars, mode, exchanges, uncaught, rehydrated, keeperOnlyVars,
                   deleteVars, patVars>>

\* DELETE_ACCOUNT_FAILURE is delivered: line 533
DispatchDeleteAccountFailure ==
    /\ Delivering("DELETE_ACCOUNT_FAILURE")
    /\ Deliver(onDeleteAccountFailure(Len(log) + 1))
    /\ UNCHANGED <<storeVars, mode, exchanges, uncaught, rehydrated, keeperOnlyVars,
                   deleteVars, patVars>>

DeleteNext ==
    \/ UiDeleteAccountRequest
    \/ UiLogout
    \/ DispatchDeleteAccountRequest
    \/ \E k \in DOMAIN deletions, outcome \in DeleteOutcomes : CompleteDelete(k, outcome)
    \/ \E k \in DOMAIN deletions : DiscardDelete(k)
    \/ DispatchDeleteAccountSuccess
    \/ DispatchDeleteAccountFailure
    \/ DispatchLogout

DeleteSpec == DeleteInit /\ [][DeleteNext]_vars

(***************************************************************************)
(* The personal access token helpers of LoginHelpersContext.tsx:           *)
(* handleAuthError (lines 73-89), loginWithGitHubPersonalAccessToken       *)
(* (208-320) and removePersonalAccessToken (322-332).                      *)
(***************************************************************************)
\* a JavaScript number or string
JsNumber(n) == [type |-> "number", num |-> n, str |-> ""]
JsString(s) == [type |-> "string", num |-> 0, str |-> s]

\* `${v}`
TemplateString(v) == IF v.type = "number" THEN ToString(v.num) ELSE v.str

\* the truthiness of v
Truthy(v) == IF v.type = "number" THEN v.num # 0 ELSE v.str # ""

\* selectors.currentGitHubUserSelector(state): the members id and login
GitHubUser(id, login) == [id |-> id, login |-> login]

GitHubUsers ==
    { GitHubUser(JsString("7"), "alice"),       \* the id kept as a string
      GitHubUser(JsNumber(8), "alice") }        \* another account of the same login

\* lines 101-103: selectors.currentGitHubUserSelector(state)?.id
loggedGitHubUserId(u) == IF u = {} THEN {} ELSE {Some(u).id}

\* lines 104-106: selectors.currentGitHubUsernameSelector(state)
loggedGitHubUsername(u) == IF u = {} THEN {} ELSE {Some(u).login}

\* the x-oauth-scopes header: a string, as the sequence of its pieces; a piece
\* is white space (" "), a comma (",") or a run of other characters
ScopeHeaders ==
    { {},                                       \* no header
      {<<>>},                                   \* ""
      {<<"repo">>},
      {<<"user">>},
      {<<"read:user", ",", " ", "repo">>},      \* "read:user, repo"
      {<<"user", ",", " ", "public_repo">>},
      {<<" ", ",", " ">>},                      \* " , "
      {<<"user", ",", ",", "gist">>},
      {<<"re", " ", "po">>} }                   \* "re po"

\* .replace(/\s+/g, '')
StripWhitespace(pieces) == SelectSeq(pieces, LAMBDA p : p # " ")

\* .split(','), `entry` being the text read since the last comma
RECURSIVE SplitOnComma(_, _)
SplitOnComma(pieces, entry) ==
    IF pieces = <<>> THEN << entry >>
    ELSE IF Head(pieces) = "," THEN << entry >> \o SplitOnComma(Tail(pieces), "")
    ELSE SplitOnComma(Tail(pieces), entry \o Head(pieces))

\* .filter(Boolean)
FilterBoolean(entries) == SelectSeq(entries, LAMBDA e : e # "")

\* lines 243-246
ParseScopes(header) ==
    FilterBoolean(SplitOnComma(StripWhitespace(IF header = {} THEN <<>> ELSE Some(header)),
                               ""))

\* scope.includes(name)
Includes(scope, name) == \E i \in DOMAIN scope : scope[i] = name

\* a scope test that also rejects a token without any scope
ScopeRejectedWhenEmpty(scope) == ~Includes(scope, "repo")

\* line 248
ScopeRejected(scope) == Len(scope) > 0 /\ ~Includes(scope, "repo")

ScopeMessage ==
    "You didn't include the \"repo\" permission scope, which is required to have access to private repositories. Your token will be safe on your device, and will never be sent to DevHub's server."

\* response.data of GET /user: id and login ("" when missing)
UserData(id, login) == [id |-> id, login |-> login]

\* what axios.get of /user ends in; `scopes` is response.headers['x-oauth-scopes']
UserOutcomes ==
    { [resolved |-> TRUE,
       response |-> {[status |-> {200}, data |-> {UserData({JsNumber(7)}, "alice")},
                      scopes |-> h]},
       error |-> {}] :
        h \in ScopeHeaders }
    \cup
    { [resolved |-> TRUE,
       response |-> {[status |-> {200}, data |-> {UserData(id, login)},
                      scopes |-> h]},
       error |-> {}] :
        id \in {{}, {JsNumber(0)}, {JsNumber(7)}, {JsNumber(8)}},
        login \in {"", "alice", "bob"},
        h \in {{<<"repo">>}, {<<"user">>}} }
    \cup
    { [resolved |-> TRUE, response |-> {[status |-> {200}, data |-> {}, scopes |-> {}]},
       error |-> {}] }
    \cup
    { [resolved |-> FALSE, response |-> {}, error |-> {e}] :
        e \in { Thrown(TRUE, TRUE, "Error", "Request failed with status code 401", {}),
                Thrown(FALSE, FALSE, "", "Timeout", {}) } }     \* the string "Timeout"

\* the body of the loginWithPersonalAccessToken mutation's answer:
\* data?.loginWithPersonalAccessToken?.appToken and errors
PatLoginBody(token, errors) == [appToken |-> token, errors |-> errors]

PatLoginBodies ==
    { PatLoginBody({"s2"}, {}),
      PatLoginBody({"s2"}, {<<>>}),             \* empty errors array
      PatLoginBody({""}, {}),
      PatLoginBody({}, {}),
      PatLoginBody({}, {OtherErrors}),
      PatLoginBody({"s2"}, {OtherErrors}),
      PatLoginBody({}, {<< GraphQLErrorItem("", "") >>}) }

\* what axios.post of the mutation ends in
PatLoginOutcomes ==
    { [resolved |-> TRUE, response |-> {[status |-> {200}, data |-> d]}, error |-> {}] :
        d \in {{}} \cup { {b} : b \in PatLoginBodies } }
    \cup
    { [resolved |-> FALSE, response |-> {}, error |-> {e}] :
        e \in { Thrown(TRUE, TRUE, "Error", "Network Error", {}),
                Thrown(TRUE, FALSE, "", "", {}) } }

\* lines 81-88: the message of the normalized error, and whether a dialog shows it
handleAuthError(error) ==
    LET message == IF error.isError THEN error.message
                   ELSE IF ~error.isObject THEN error.message
                   ELSE "Unknown error"
    IN  [message |-> message, dialog |-> message \notin {"Canceled", "Timeout"}]

\* a call of one of the two helpers; loggedGitHubUserId and loggedGitHubUsername
\* are the values the callback closed over (lines 313-320).  A call that has
\* ended keeps the message handleAuthError reported, and no local
PatCall(kind, pc, id, name) ==
    [kind |-> kind, pc |-> pc, token |-> {},
     loggedGitHubUserId |-> id, loggedGitHubUsername |-> name,
     error |-> {}, dialog |-> FALSE]

Ended(kind, error, dialog) ==
    [kind |-> kind, pc |-> "done", token |-> {},
     loggedGitHubUserId |-> {}, loggedGitHubUsername |-> {},
     error |-> error, dialog |-> dialog]

\* line 225
InvalidUser(response) ==
    \/ response.data = {}
    \/ Some(response.data).id = {}
    \/ ~Truthy(Some(Some(response.data).id))
    \/ Some(response.data).login = ""

\* lines 229-232
IdentityMismatch(call, data) ==
    /\ call.loggedGitHubUserId # {}
    /\ Truthy(Some(call.loggedGitHubUserId))
    /\ TemplateString(Some(data.id)) # TemplateString(Some(call.loggedGitHubUserId))

IdDetails(call, data) ==
    " (ID " \o TemplateString(Some(data.id)) \o " instead of "
            \o TemplateString(Some(call.loggedGitHubUserId)) \o ")"

\* details that always name the ids
MismatchDetailsById(call, data) == IdDetails(call, data)

\* lines 233-236
MismatchDetails(call, data) ==
    IF {data.login} # call.loggedGitHubUsername
    THEN " (" \o data.login \o " instead of "
              \o (IF call.loggedGitHubUsername = {} THEN "undefined"
                  ELSE Some(call.loggedGitHubUsername)) \o ")"
    ELSE IdDetails(call, data)

Passed == [put |-> {}, throw |-> {}]

\* lines 219-254, after axios.get has ended
ValidateUser(call, outcome) ==
    IF ~outcome.resolved THEN Throw(Some(outcome.error))
    ELSE LET response == Some(outcome.response)
         IN  IF InvalidUser(response)
             THEN Throw(NewError("Invalid response from GitHub API"))
             ELSE IF IdentityMismatch(call, Some(response.data))
             THEN Throw(NewError(
                    "This Personal Access Token seems to be from a different user"
                    \o MismatchDetails(call, Some(response.data)) \o "."))
             ELSE IF ScopeRejected(ParseScopes(response.scopes))
             THEN Throw(NewError(ScopeMessage))
             ELSE Passed

\* actions.replacePersonalTokenDetails({ tokenDetails }), dispatched by call c
replacePersonalTokenDetails(details, c) ==
    [Action("REPLACE_PERSONAL_TOKEN_DETAILS", {}, {}, {}, c, 0)
        EXCEPT !.tokenDetails = details]

\* actions.loginRequest({ appToken }), dispatched by call c
PatLoginRequest(token, c) == [loginRequest(token, 0) EXCEPT !.task = c]

\* lines 258-270 with the login request alone
AdoptDirectLoginOnly(c, token, data, scope) == << PatLoginRequest(token, c) >>

\* lines 258-270 (tokenCreatedAt, a time stamp, is left out)
AdoptDirect(c, token, data, scope) ==
    << replacePersonalTokenDetails(
           {[login |-> data.login, token |-> token, scope |-> scope]}, c),
       PatLoginRequest(token, c) >>

\* lines 289-303, after axios.post has ended
AdoptBackend(c, outcome) ==
    IF ~outcome.resolved THEN Throw(Some(outcome.error))
    ELSE LET response == Some(outcome.response)
         IN  IF response.data = {}
             THEN Throw(TypeError("Cannot destructure property 'data'"))
             ELSE LET body == Some(response.data)
                  IN  IF body.errors # {} /\ Len(Some(body.errors)) > 0
                      THEN Throw(NewError(
                             IF Some(body.errors)[1].message # ""
                             THEN Some(body.errors)[1].message ELSE "GraphQL Error"))
                      ELSE IF body.appToken = {} \/ body.appToken = {""}
                      THEN Throw(NewError("Invalid response"))
                      ELSE Put(PatLoginRequest(Some(body.appToken), c))

PatInit ==
    /\ mode \in {"direct", "backend"}
    /\ \/ appToken = {} /\ isLogged = FALSE /\ user = {}
       \/ \E u \in GitHubUsers : appToken = {"t1"} /\ isLogged = TRUE /\ user = {u}
    /\ pending = <<>>
    /\ log = <<>>
    /\ exchanges = <<>>
    /\ uncaught = {}
    /\ rehydrated = FALSE
    /\ now = StartTime
    /\ reloadable = FALSE
    /\ kpc = "takeFirst"
    /\ wakeAt = StartTime
    /\ kLast = NoIteration
    /\ expiredHits = 0
    /\ reloadPending = FALSE
    /\ deletions = <<>>
    /\ patCalls = <<>>
    /\ patLoadingState = {}
    /\ isExecutingOAuth = FALSE

\* no call is between `await Promise.resolve()` and its continuation: the
\* continuation is a microtask, it runs before any other event is handled
NoMicrotask == \A c \in DOMAIN patCalls : patCalls[c].pc # "microtask"

\* no prompt is open: the dialog of lines 146-198 is modal, the user starts
\* no other helper before answering it
NoPrompt == \A c \in DOMAIN patCalls : patCalls[c].pc # "prompt"

\* a login or a logout changes the GitHub user of the store while a call of
\* loginWithGitHubPersonalAccessToken is suspended
StoreUserChanges(u) ==
    /\ pending = <<>>
    /\ \E c \in DOMAIN patCalls : patCalls[c].pc \in {"prompt", "get"}
    /\ user # u
    /\ user' = u
    /\ appToken' = IF u = {} THEN {} ELSE {"t1"}
    /\ isLogged' = (u # {})
    /\ UNCHANGED <<mode, pending, log, exchanges, uncaught, rehydrated, keeperOnlyVars,
                   deleteVars, patVars>>

\* lines 208-212: the helper is called and shows the prompt
loginWithGitHubPersonalAccessToken ==
    /\ pending = <<>>
    /\ NoMicrotask
    /\ NoPrompt
    /\ Len(patCalls) < MaxRequests
    /\ patCalls' = Append(patCalls,
                          PatCall("add", "prompt", loggedGitHubUserId(user),
                                  loggedGitHubUsername(user)))
    /\ UNCHANGED <<storeVars, mode, pending, log, exchanges, uncaught, rehydrated,
                   keeperOnlyVars, deleteVars, patLoadingState, isExecutingOAuth>>

\* the end of a call that never cleared the loading state
FinishWithoutClearing(c, thrown) ==
    /\ patCalls' = [patCalls EXCEPT
                      ![c] = Ended(patCalls[c].kind,
                                   { handleAuthError(e).message : e \in thrown },
                                   \E e \in thrown : handleAuthError(e).dialog)]
    /\ isExecutingOAuth' = FALSE
    /\ patLoadingState' = patLoadingState

\* lines 306-312: the call ends, with the value it threw if any
Finish(c, thrown) ==
    /\ patCalls' = [patCalls EXCEPT
                      ![c] = Ended(patCalls[c].kind,
                                   { handleAuthError(e).message : e \in thrown },
                                   \E e \in thrown : handleAuthError(e).dialog)]
    /\ isExecutingOAuth' = FALSE
    /\ patLoadingState' = {}

\* lines 212-223: the prompt is answered with a token, with nothing or not at
\* all (cancelled); with a token, the call goes on to GET /user
PatPrompted(c, answer) ==
    /\ pending = <<>>
    /\ NoMicrotask
    /\ patCalls[c].pc = "prompt"
    /\ IF answer = {} \/ answer = {""}
       THEN Finish(c, {NewError("Canceled")})
       ELSE /\ patCalls' = [patCalls EXCEPT ![c].pc = "get", ![c].token = answer]
            /\ isExecutingOAuth' = TRUE
            /\ patLoadingState' = {"adding"}
    /\ UNCHANGED <<storeVars, mode, pending, log, exchanges, uncaught, rehydrated,
                   keeperOnlyVars, deleteVars>>

\* lines 219-287: axios.get ends in `outcome`; the token is validated and, in
\* direct mode, adopted; in backend mode the call goes on to the mutation
PatValidated(c, outcome) ==
    /\ pending = <<>>
    /\ NoMicrotask
    /\ patCalls[c].pc = "get"
    /\ LET checked == ValidateUser(patCalls[c], outcome)
       IN  IF checked.throw # {}
           THEN Finish(c, checked.throw) /\ pending' = pending
           ELSE IF mode = "direct"
           THEN /\ Finish(c, {})
                /\ pending' = AdoptDirect(c, Some(patCalls[c].token),
                                          Some(Some(outcome.response).data),
                                          ParseScopes(Some(outcome.response).scopes))
           ELSE /\ patCalls' = [patCalls EXCEPT ![c].pc = "post"]
                /\ UNCHANGED <<pending, patLoadingState, isExecutingOAuth>>
    /\ UNCHANGED <<storeVars, mode, log, exchanges, uncaught, rehydrated,
                   keeperOnlyVars, deleteVars>>

\* lines 273-312: axios.post of the mutation ends in `outcome`
PatExchanged(c, outcome) ==
    /\ pending = <<>>
    /\ NoMicrotask
    /\ patCalls[c].pc = "post"
    /\ LET adopted == AdoptBackend(c, outcome)
       IN  /\ Finish(c, adopted.throw)
           /\ pending' = IF adopted.put = {} THEN <<>> ELSE << Some(adopted.put) >>
    /\ UNCHANGED <<storeVars, mode, log, exchanges, uncaught, rehydrated,
                   keeperOnlyVars, deleteVars>>

\* lines 322-326: the helper is called, up to its await
removePersonalAccessToken ==
    /\ pending = <<>>
    /\ NoMicrotask
    /\ NoPrompt
    /\ Len(patCalls) < MaxRequests
    /\ patCalls' = Append(patCalls,
                          PatCall("remove", "microtask", loggedGitHubUserId(user),
                                  loggedGitHubUsername(user)))
    /\ patLoadingState' = {"removing"}
    /\ pending' = << replacePersonalTokenDetails({}, Len(patCalls) + 1) >>
    /\ UNCHANGED <<storeVars, mode, log, exchanges, uncaught, rehydrated,
                   keeperOnlyVars, deleteVars, isExecutingOAuth>>

\* line 327: the continuation of removePersonalAccessToken
RemoveResumes(c) ==
    /\ pending = <<>>
    /\ patCalls[c].pc = "microtask"
    /\ patCalls' = [patCalls EXCEPT ![c] = Ended("remove", {}, FALSE)]
    /\ patLoadingState' = {}
    /\ UNCHANGED <<storeVars, mode, pending, log, exchanges, uncaught, rehydrated,
                   keeperOnlyVars, deleteVars, isExecutingOAuth>>

\* REPLACE_PERSONAL_TOKEN_DETAILS is delivered: no saga of auth.ts reacts
DispatchReplacePersonalTokenDetails ==
    /\ Delivering("REPLACE_PERSONAL_TOKEN_DETAILS")
    /\ Deliver(<<>>)
    /\ UNCHANGED <<storeVars, mode, exchanges, uncaught, rehydrated, keeperOnlyVars,
                   deleteVars, patVars>>

PatNext ==
    \/ \E u \in {{}} \cup { {g} : g \in GitHubUsers } : StoreUserChanges(u)
    \/ loginWithGitHubPersonalAccessToken
    \/ \E c \in DOMAIN patCalls, answer \in {{}, {""}, {"p1"}} : PatPrompted(c, answer)
    \/ \E c \in DOMAIN patCalls, outcome \in UserOutcomes : PatValidated(c, outcome)
    \/ \E c \in DOMAIN patCalls, outcome \in PatLoginOutcomes : PatExchanged(c, outcome)
    \/ removePersonalAccessToken
    \/ \E c \in DOMAIN patCalls : RemoveResumes(c)
    \/ DispatchReplacePersonalTokenDetails
    \/ DispatchLoginRequest

PatSpec == PatInit /\ [][PatNext]_vars

(***************************************************************************)
(* Properties of the Session Keeper.                                       *)
(***************************************************************************)
\* an iteration of a complete session with lastLoginAt set is about to run
\* and ends in a delay()
KeeperSleeps == KeeperReady /\ kpc' = "sleeping"

\* rules 4 and 5 as the specification words them: until 100 ms after
\* trialEndAt when it is less than an hour ahead, otherwise one hour
RuleFourFiveDelay(t, u) ==
    IF ExpiresSoon(t, u) THEN Some(TrialEndOf(u)) - t + TrialSlack ELSE HourDelay

\* C1: when rules 1-3 do not end the iteration and trialEndAt is in the future,
\* less than one hour away, the keeper sleeps exactly (trialEndAt - now) + 100 ms.
C1_SleepsUntilAfterTrialEnd ==
    [][ (KeeperSleeps /\ ExpiresSoon(now, user))
            => kLast'.delays = << Some(TrialEndOf(user)) - now + TrialSlack >> ]_vars

\* C2 as claimed: for one trialEndAt, a run of the keeper takes the "plan just
\* expired" branch at most once.
C2_ExpiredBranchAtMostOnce == expiredHits <= 1

\* C2 as amended: for one trialEndAt, a run of the keeper takes the "plan just
\* expired" branch at most once per minute of the 5-minute window, 5 times.
C2_ExpiredBranchAtMostPerWindow == expiredHits * ExpiredDelay <= ExpiredWindow

C2_Witness ==
    /\ expiredHits * ExpiredDelay = ExpiredWindow
    /\ kLast.rule = "expired"
    /\ now - Some(TrialEndOf(user)) = ExpiredWindow - ExpiredDelay

\* C10: lastLoginAt more than 48 hours old in a reloadable environment: a reload
\* and no login-request; more than 12 hours old with no reloadable environment:
\* exactly one login-request with the current appToken, then the sleep of rule 4
\* or rule 5.
C10_ReloadOrRefresh ==
    [][ /\ (KeeperSleeps /\ reloadable /\ Elapsed(now, user) > ReloadAfter)
            => (reloadPending' /\ kLast'.requests = <<>>)
        /\ (KeeperSleeps /\ ~reloadable /\ Elapsed(now, user) > RefreshAfter)
            => /\ kLast'.requests = << Some(appToken) >>
               /\ kLast'.delays = << RuleFourFiveDelay(now, user) >>
      ]_vars

\* C11: when lastLoginAt is more than 12 hours old (and no reload is due) and
\* trialEndAt passed less than 5 minutes ago, the iteration emits exactly one
\* login-request and sleeps the generic delay of one hour, not one minute.
C11_RefreshBeatsExpired ==
    [][ ( /\ KeeperSleeps
          /\ ~(reloadable /\ Elapsed(now, user) > ReloadAfter)
          /\ Elapsed(now, user) > RefreshAfter
          /\ JustExpired(now, user) )
        => /\ kLast'.requests = << Some(appToken) >>
           /\ kLast'.delays = << HourDelay >>
           /\ wakeAt' = now + HourDelay
      ]_vars

C11_Witness ==
    /\ kpc = "sleeping"
    /\ kLast = Iteration("refresh", << Some(appToken) >>, << HourDelay >>)
    /\ wakeAt = now + HourDelay
    /\ user # {}
    /\ Some(user).lastLoginAt # {}
    /\ Elapsed(now, user) > RefreshAfter
    /\ JustExpired(now, user)

\* C12: a session at most 12 hours old whose trialEndAt passed less than 5
\* minutes ago: the iteration emits exactly one login-request with the current
\* appToken and sleeps exactly one minute, with no generic delay after it.
C12_ExpiredSleepsOneMinute ==
    [][ ( /\ KeeperSleeps
          /\ Elapsed(now, user) <= RefreshAfter
          /\ JustExpired(now, user) )
        => /\ kLast'.requests = << Some(appToken) >>
           /\ kLast'.delays = << 1000 * 60 >>
           /\ wakeAt' = now + 1000 * 60
      ]_vars

C12_Witness ==
    /\ kpc = "sleeping"
    /\ kLast = Iteration("expired", << Some(appToken) >>, << ExpiredDelay >>)
    /\ wakeAt = now + ExpiredDelay
    /\ user # {}
    /\ Some(user).lastLoginAt # {}
    /\ Elapsed(now, user) <= RefreshAfter
    /\ JustExpired(now, user)

\* before the first login-success of a run the keeper has done nothing
C13_NothingBeforeFirstLogin ==
    /\ kpc \in {"takeFirst", "takeLogin", "select", "sleeping"}
    /\ kpc = "takeFirst" => (kLast = NoIteration /\ ~reloadPending)

\* an iteration that finds a part of the session missing emits nothing and
\* blocks; a blocked keeper is resumed by a login-success only
C13_WaitsForLoginSuccess ==
    /\ ( /\ kpc = "select"
         /\ SessionMissing(appToken, isLogged, user)
         /\ kpc' \notin {"select", "takeFirst"} )
       => /\ kpc' = "takeLogin"
          /\ kLast'.requests = <<>>
          /\ kLast'.delays = <<>>
          /\ reloadPending' = reloadPending
          /\ wakeAt' = wakeAt
    /\ ( /\ kpc \in {"takeFirst", "takeLogin"}
         /\ kpc' \notin {kpc, "takeFirst"} )
       => /\ kpc' = "select"
          /\ ~SessionMissing(appToken', isLogged', user')
          /\ kLast' = kLast
          /\ reloadPending' = reloadPending
          /\ wakeAt' = wakeAt

\* C13: the keeper emits no login-request, reloads nothing and does not sleep
\* before the first login-success; an iteration that finds appToken, the login
\* flag or the user missing emits nothing and waits for the next login-success;
\* the loop never ends.
C13_KeeperGating == []C13_NothingBeforeFirstLogin /\ [][C13_WaitsForLoginSuccess]_vars

C13_Witness ==
    /\ kpc = "takeLogin"
    /\ kLast = Iteration("await", <<>>, <<>>)
    /\ SessionMissing(appToken, isLogged, user)
    /\ now > StartTime

\* C14: the keeper never busy-polls: every loop iteration ends blocked on a
\* login-success or in a sleep of strictly positive duration.
C14_NeverBusyPolls ==
    [][ (kpc = "select" /\ (kpc' # "select" \/ kLast' # kLast))
        => \/ kpc' \in {"takeLogin", "takeFirst"}
           \/ kpc' = "sleeping" /\ wakeAt' > now
      ]_vars

\* an iteration of the keeper runs and puts a login request
KeeperEmits == kpc = "select" /\ kpc' = "sleeping" /\ kLast'.requests # <<>>

\* C24: every login-request the keeper emits carries the appToken the store
\* holds at the moment of emission, and the keeper emits one only when the store
\* is logged in with a user whose lastLoginAt is set, however logout, login and
\* user-data updates interleave with its sleeps; no other step emits for it.
C24_KeeperRequestsCurrentToken ==
    [][ /\ KeeperEmits
           => /\ appToken # {} /\ isLogged /\ user # {}
              /\ Some(user).lastLoginAt # {}
              /\ \A i \in DOMAIN kLast'.requests : kLast'.requests[i] \in appToken
              /\ appToken' = appToken /\ isLogged' = isLogged /\ user' = user
        /\ (kLast' # kLast /\ kLast'.requests # <<>>) => KeeperEmits
      ]_vars

C24_Witness ==
    /\ kpc = "sleeping"
    /\ kLast.rule = "expired"
    /\ Len(kLast.requests) = 1
    /\ isLogged
    /\ appToken # {}
    /\ kLast.requests[1] \notin appToken

(***************************************************************************)
(* Properties of the login exchange and of the event reactions.            *)
(***************************************************************************)
\* every action put or dispatched so far, delivered or not, in order
Emitted == log \o pending

IsOutcome(a) == a.type \in {"LOGIN_SUCCESS", "LOGIN_FAILURE"}

\* the places of the outcome events of exchange k
OutcomesOf(k) == { j \in DOMAIN Emitted : IsOutcome(Emitted[j]) /\ Emitted[j].task = k }

\* the places of the logout events put in reaction to the i-th delivered action
LogoutsFor(i) == { j \in DOMAIN Emitted : Emitted[j].type = "LOGOUT" /\ Emitted[j].cause = i }

\* the response of an ended call: the one it resolved with, or error.response
ResponseOf(outcome) ==
    IF outcome.resolved THEN outcome.response
    ELSE Some(outcome.error).response

\* the body of the response is an object with a non-empty errors array
CarriesErrors(outcome) ==
    /\ ResponseOf(outcome) # {}
    /\ Some(ResponseOf(outcome)).data # {}
    /\ ~Some(Some(ResponseOf(outcome)).data).text
    /\ Some(Some(ResponseOf(outcome)).data).errors # {}
    /\ Len(Some(Some(Some(ResponseOf(outcome)).data).errors)) > 0

\* a response that resolved the call with an object body without GraphQL errors
ResolvedWithoutErrors(outcome) ==
    /\ outcome.resolved
    /\ Some(outcome.response).data # {}
    /\ ~Some(Some(outcome.response).data).text
    /\ ~CarriesErrors(outcome)

PutsOne(type, k) ==
    /\ Len(pending') = 1
    /\ pending'[1].type = type
    /\ pending'[1].task = k

\* C3: backend-mediated exchange: a response without GraphQL errors that has a
\* non-empty login.appToken and a login.user.github.user.id gives a login-success
\* with that response's appToken and user; a response lacking either gives no
\* login-success and a login-failure without status.
C3_SuccessCarriesResponseSession ==
    [][ \A k \in DOMAIN exchanges, o \in Outcomes :
          (mode = "backend" /\ Complete(k, o) /\ ResolvedWithoutErrors(o))
          => LET body == Some(Some(o.response).data)
             IN  IF LoginComplete(body)
                 THEN /\ PutsOne("LOGIN_SUCCESS", k)
                      /\ pending'[1].appToken = {Some(Some(body.data).login).appToken}
                      /\ pending'[1].user = Some(Some(body.data).login).user
                 ELSE /\ PutsOne("LOGIN_FAILURE", k)
                      /\ Some(pending'[1].error).status = {}
      ]_vars

\* C4: backend-mediated exchange: a response with a non-empty errors array gives
\* a login-failure, and no login-success, whose status is the HTTP status of the
\* response and whose response holds the error list of the response.
C4_GraphQLErrorsKeepStatusAndList ==
    [][ \A k \in DOMAIN exchanges, o \in Outcomes :
          (mode = "backend" /\ Complete(k, o) /\ CarriesErrors(o))
          => /\ PutsOne("LOGIN_FAILURE", k)
             /\ Some(pending'[1].error).status = Some(ResponseOf(o)).status
             /\ Some(pending'[1].error).response # {}
             /\ Some(Some(pending'[1].error).response).errors
                    = Some(Some(ResponseOf(o)).data).errors
      ]_vars

C4_Witness ==
    /\ mode = "backend"
    /\ \E j \in DOMAIN log :
         /\ log[j].type = "LOGIN_FAILURE"
         /\ exchanges[log[j].task].answered = {200}
         /\ Some(log[j].error).status = {200}
         /\ Some(Some(log[j].error).response).errors = {OtherErrors}

\* C5: latest-wins: at most one exchange is in flight; an exchange superseded by
\* a newer login-request never emits login-success or login-failure; an outcome
\* is emitted only while its request is the newest delivered login-request.
C5_LatestWins ==
    /\ Cardinality({ k \in DOMAIN exchanges : exchanges[k].status = "inflight" }) <= 1
    /\ \A k \in DOMAIN exchanges :
         exchanges[k].status \in {"cancelled", "discarded"} => OutcomesOf(k) = {}
    /\ \A j \in DOMAIN Emitted :
         IsOutcome(Emitted[j])
         => \A i \in DOMAIN Emitted :
              (exchanges[Emitted[j].task].request < i /\ i < j)
              => Emitted[i].type # "LOGIN_REQUEST"

C5_Witness ==
    \E k1, k2 \in DOMAIN exchanges :
        /\ k1 < k2
        /\ exchanges[k1].status = "discarded"
        /\ exchanges[k2].status = "done"
        /\ \E j \in DOMAIN log : IsOutcome(log[j]) /\ log[j].task = k2

HasUnauthenticatedError(error) ==
    /\ error.response # {}
    /\ Some(error.response).errors # {}
    /\ SomeUnauthenticated(Some(Some(error.response).errors))

\* C6: every delivered login-failure whose error has status 401 produces exactly
\* one logout; one whose error has status 403 and no unauthenticated GraphQL
\* error produces none.
C6_LogoutOn401Only ==
    \A i \in DOMAIN log :
        log[i].type = "LOGIN_FAILURE"
        => /\ Some(log[i].error).status = {401} => Cardinality(LogoutsFor(i)) = 1
           /\ (Some(log[i].error).status = {403} /\ ~HasUnauthenticatedError(Some(log[i].error)))
                => LogoutsFor(i) = {}

C6_Witness ==
    \E i, j, k \in DOMAIN log :
        /\ log[i].type = "LOGIN_FAILURE"
        /\ Some(log[i].error).status = {401}
        /\ log[j].type = "LOGOUT" /\ log[j].cause = i
        /\ log[k].type = "LOGIN_FAILURE"
        /\ Some(log[k].error).status = {403}

\* C7: a login-failure of an exchange that failed on a GraphQL error tagged
\* UNAUTHENTICATED, whatever the HTTP status, produces a logout.
C7_UnauthenticatedForcesLogout ==
    \A i \in DOMAIN log :
        (log[i].type = "LOGIN_FAILURE" /\ HasUnauthenticatedError(Some(log[i].error)))
        => LogoutsFor(i) # {}

\* C8: a login exchange, direct-provider or backend-mediated, that failed because
\* the endpoint answered HTTP 401, whatever the body, produces a logout.
C8_Http401ForcesLogout ==
    \A i \in DOMAIN log :
        (log[i].type = "LOGIN_FAILURE" /\ exchanges[log[i].task].answered = {401})
        => LogoutsFor(i) # {}

\* C9: an exchange that ran to completion emitted exactly one outcome event; no
\* error left the handler uncaught; a rejected call ends in a login-failure.
C9_Completed ==
    /\ uncaught = {}
    /\ \A k \in DOMAIN exchanges :
         exchanges[k].status = "done" => Cardinality(OutcomesOf(k)) = 1

C9_RejectionFails ==
    \A k \in DOMAIN exchanges, o \in Outcomes :
        (Complete(k, o) /\ ~o.resolved) => PutsOne("LOGIN_FAILURE", k)

C9_ExactlyOneOutcome == []C9_Completed /\ [][C9_RejectionFails]_vars

C9_Witness ==
    \E k \in DOMAIN exchanges, j \in DOMAIN log :
        /\ exchanges[k].status = "done"
        /\ log[j].type = "LOGIN_FAILURE"
        /\ log[j].task = k
        /\ Some(log[j].error).message = "Unknown error"

\* the GraphQL error shape as section 4.5 of the specification words it: an
\* object whose response.data.errors is a non-empty array and whose response
\* has a status
NonEmptyErrorsShape(e) ==
    /\ e.isObject
    /\ e.response # {}
    /\ Some(e.response).status # {}
    /\ Some(e.response).data # {}
    /\ ~Some(Some(e.response).data).text
    /\ Some(Some(e.response).data).errors # {}
    /\ Len(Some(Some(Some(e.response).data).errors)) > 0

\* the same with any array, empty or not, for response.data.errors
ErrorsArrayShape(e) ==
    /\ e.isObject
    /\ e.response # {}
    /\ Some(e.response).status # {}
    /\ Some(e.response).data # {}
    /\ ~Some(Some(e.response).data).text
    /\ Some(Some(e.response).data).errors # {}

\* what the catch block makes of the value `e` the awaited call of exchange k
\* rejected with, `shaped` telling whether e has the GraphQL error shape
Normalized(e, k, shaped) ==
    /\ PutsOne("LOGIN_FAILURE", k)
    /\ uncaught' = uncaught
    /\ IF shaped
       THEN /\ Some(pending'[1].error).status = Some(e.response).status
            /\ Some(pending'[1].error).response # {}
            /\ Some(Some(pending'[1].error).response).errors
                   = Some(Some(e.response).data).errors
       ELSE /\ Some(pending'[1].error).status = {}
            /\ Some(pending'[1].error).response = {}
    /\ ~e.isError => Some(pending'[1].error).message = "Unknown error"

DeleteEventsOf(k) ==
    { j \in DOMAIN Emitted :
        /\ Emitted[j].type \in {"DELETE_ACCOUNT_SUCCESS", "DELETE_ACCOUNT_FAILURE"}
        /\ Emitted[j].task = k }

\* the mutation answered {data: {deleteAccount: true}} without GraphQL errors
ReturnsTrue(outcome) ==
    /\ ResolvedWithoutErrors(outcome)
    /\ Some(Some(outcome.response).data).data # {}
    /\ Some(Some(Some(outcome.response).data).data).deleteAccount
           = DeleteAnswer("boolean", TRUE)

\* the handler of a request whose mutation returned true puts
\* delete-account-success, of any other request delete-account-failure
C20_DeleteStep ==
    \A k \in DOMAIN deletions, o \in DeleteOutcomes :
        CompleteDelete(k, o)
        => /\ PutsOne(IF ReturnsTrue(o) THEN "DELETE_ACCOUNT_SUCCESS"
                      ELSE "DELETE_ACCOUNT_FAILURE", k)
           /\ uncaught' = uncaught

\* a delivered delete-account-success has produced exactly one logout, a
\* delete-account-failure none; a request handled to its end has one event
C20_DeleteEvents ==
    /\ \A i \in DOMAIN log :
         /\ log[i].type = "DELETE_ACCOUNT_SUCCESS" => Cardinality(LogoutsFor(i)) = 1
         /\ log[i].type = "DELETE_ACCOUNT_FAILURE" => LogoutsFor(i) = {}
    /\ \A k \in DOMAIN deletions :
         deletions[k].status = "done" => Cardinality(DeleteEventsOf(k)) = 1

C22_NoDeleteRequestAbandoned ==
    \A k \in DOMAIN deletions :
        /\ deletions[k].status \in {"inflight", "done"}
        /\ deletions[k].status = "done" => Cardinality(DeleteEventsOf(k)) = 1

\* the places of the login requests put in reaction to the i-th delivered action
LoginRequestsFor(i) ==
    { j \in DOMAIN Emitted : Emitted[j].type = "LOGIN_REQUEST" /\ Emitted[j].cause = i }

\* the delivery of a rehydrate event puts one login request with the token of
\* the store, or nothing when the store has no token
C21_RehydrateStep ==
    (Delivering("REHYDRATE") /\ log' # log)
    => /\ log' = Append(log, Head(pending))
       /\ appToken' = appToken
       /\ exchanges' = exchanges
       /\ IF appToken = {}
          THEN pending' = Tail(pending)
          ELSE /\ Len(pending') = Len(pending)
               /\ SubSeq(pending', 1, Len(pending) - 1) = Tail(pending)
               /\ pending'[Len(pending)].type = "LOGIN_REQUEST"
               /\ pending'[Len(pending)].appToken = appToken
               /\ pending'[Len(pending)].cause = Len(log) + 1

\* a delivered rehydrate event has at most one login request, and no other
\* delivered action has one put in reaction to it
C21_RehydrateEvents ==
    \A i \in DOMAIN log :
        /\ Cardinality(LoginRequestsFor(i)) <= 1
        /\ LoginRequestsFor(i) # {} => log[i].type = "REHYDRATE"
        /\ \A j \in LoginRequestsFor(i) : Emitted[j].appToken # {}

\* C21: each rehydrate event emits exactly one login-request carrying the
\* persisted application token when the store holds one, and no login-request
\* when it holds none.
C21_RehydrationReaction == []C21_RehydrateEvents /\ [][C21_RehydrateStep]_vars

C21_Witness ==
    \E i, j \in DOMAIN log, k \in DOMAIN exchanges :
        /\ log[i].type = "REHYDRATE"
        /\ log[j].type = "LOGIN_REQUEST" /\ log[j].cause = i
        /\ log[j].appToken = {"t1"}
        /\ exchanges[k].request = j /\ exchanges[k].appToken = "t1"

\* C23: a logout is not undone by an older exchange: every login-success that
\* follows a logout event comes from a login-request issued after that logout;
\* an exchange in flight when the logout happened produces no login-success.
C23_LogoutNotUndone ==
    \A j, l \in DOMAIN Emitted :
        ( /\ Emitted[j].type = "LOGOUT"
          /\ Emitted[l].type = "LOGIN_SUCCESS"
          /\ l > j )
        => exchanges[Emitted[l].task].request > j

(***************************************************************************)
(* Properties of the personal access token helpers.                        *)
(***************************************************************************)
RECURSIVE Concat(_)
Concat(pieces) == IF pieces = <<>> THEN "" ELSE Head(pieces) \o Concat(Tail(pieces))

\* the granted scopes of a header: its entries between commas, white space
\* removed, empty entries dropped
ScopeSet(header) ==
    LET pieces == IF header = {} THEN <<>> ELSE Some(header)
        n == Len(pieces)
        Starts == { i \in 1..(n + 1) : i = 1 \/ pieces[i - 1] = "," }
        entry(i) ==
            LET j == CHOOSE j \in (i - 1)..n :
                        /\ j = n \/ pieces[j + 1] = ","
                        /\ \A m \in i..j : pieces[m] # ","
            IN  Concat(SelectSeq(SubSeq(pieces, i, j), LAMBDA p : p # " "))
    IN  { entry(i) : i \in Starts } \ {""}

\* the headers whose granted scopes are a non-empty set without "repo"
RepoLess == { h \in ScopeHeaders : ScopeSet(h) # {} /\ "repo" \notin ScopeSet(h) }

\* the call c has ended with an error and dispatched nothing
Failed(c) == patCalls'[c].pc = "done" /\ patCalls'[c].error # {} /\ pending' = <<>>

\* the step takes the call c past the point `pc` of its code
Leaves(c, pc) == patCalls[c].pc = pc /\ patCalls'[c].pc # pc

\* C15: a token whose granted scopes are a non-empty set without "repo" is
\* rejected: the call fails and adopts nothing; a token whose granted scopes are
\* empty or contain "repo" is not rejected by the scope rule.  Both halves are
\* written from the result of the step: a step in which the call does not fail is
\* not the validation of a token without "repo", and a step that reports the
\* scope error is not the validation of a token with no scope or with "repo".
C15_ScopeRule ==
    [][ \A c \in DOMAIN patCalls : Leaves(c, "get") => \A o \in UserOutcomes :
          o.resolved
          => /\ (Some(o.response).scopes \in RepoLess /\ ~Failed(c))
                => ~PatValidated(c, o)
             /\ (Some(o.response).scopes \notin RepoLess
                 /\ patCalls'[c].error = {ScopeMessage})
                => ~PatValidated(c, o)
      ]_vars

C15_Witness ==
    /\ \E c \in DOMAIN patCalls : patCalls[c].error = {ScopeMessage}
    /\ \E j \in DOMAIN log :
         /\ log[j].type = "REPLACE_PERSONAL_TOKEN_DETAILS"
         /\ log[j].tokenDetails # {}
         /\ Some(log[j].tokenDetails).scope = << "read:user", "repo" >>

\* the number an id stands for, be it kept as a number or as a string
IdNumber(v) == IF v.type = "number" THEN v.num ELSE CHOOSE n \in 0..9 : ToString(n) = v.str

\* the response of GET /user names an account: a non-zero id and a login
NamesAccount(response) ==
    /\ response.data # {}
    /\ Some(response.data).id # {}
    /\ IdNumber(Some(Some(response.data).id)) # 0
    /\ Some(response.data).login # ""

\* the outcomes of GET /user that name an account
AccountOutcomes == { o \in UserOutcomes : o.resolved /\ NamesAccount(Some(o.response)) }

Adopted(c) == patCalls'[c].pc = "done" /\ patCalls'[c].error = {}

\* what a step of a call of loginWithGitHubPersonalAccessToken dispatches
C17_AdoptionStep ==
    /\ \A c \in DOMAIN patCalls, answer \in {{}, {""}, {"p1"}} :
         PatPrompted(c, answer) => pending' = <<>>
    /\ \A c \in DOMAIN patCalls :
         Leaves(c, "get")                \* PatValidated(c, o), whatever o is
         => IF mode = "direct" /\ Adopted(c)
            THEN /\ Len(pending') = 2
                 /\ pending'[1].type = "REPLACE_PERSONAL_TOKEN_DETAILS"
                 /\ pending'[1].tokenDetails # {}
                 /\ Some(pending'[1].tokenDetails).token = Some(patCalls[c].token)
                 /\ pending'[2].type = "LOGIN_REQUEST"
                 /\ pending'[2].appToken = patCalls[c].token
            ELSE pending' = <<>>
    /\ \A c \in DOMAIN patCalls : Leaves(c, "post") => \A o \in PatLoginOutcomes :
         PatExchanged(c, o)
         => IF Adopted(c)
            THEN /\ Len(pending') = 1
                 /\ pending'[1].type = "LOGIN_REQUEST"
                 /\ pending'[1].appToken = Some(Some(o.response).data).appToken
            ELSE pending' = <<>>

\* the places of the actions of one type the call c dispatched
DispatchedBy(c, type) ==
    { j \in DOMAIN Emitted : Emitted[j].type = type /\ Emitted[j].task = c }

\* what the calls of loginWithGitHubPersonalAccessToken have dispatched so far
C17_AdoptionHistory ==
    \A c \in DOMAIN patCalls :
        patCalls[c].kind = "add"
        => LET requests == DispatchedBy(c, "LOGIN_REQUEST")
               replaced == DispatchedBy(c, "REPLACE_PERSONAL_TOKEN_DETAILS")
           IN  IF patCalls[c].pc = "done" /\ patCalls[c].error = {}
               THEN /\ Cardinality(requests) = 1
                    /\ IF mode = "direct"
                       THEN /\ Cardinality(replaced) = 1
                            /\ \A i \in replaced, j \in requests : i < j
                       ELSE replaced = {}
               ELSE requests = {} /\ replaced = {}

\* C17: in direct mode a successful call first replaces the stored personal
\* credential, then dispatches exactly one login-request with the raw token; in
\* backend mode it dispatches exactly one login-request with the appToken the
\* mutation returned; a call that fails at any step, a cancelled prompt
\* included, dispatches neither.
C17_CredentialAdoption == []C17_AdoptionHistory /\ [][C17_AdoptionStep]_vars

C17_Witness ==
    /\ mode = "direct"
    /\ \E c1, c2 \in DOMAIN patCalls, i, j \in DOMAIN log :
         /\ patCalls[c1].kind = "add" /\ patCalls[c1].pc = "done"
         /\ patCalls[c1].error = {"Canceled"}
         /\ patCalls[c2].kind = "add" /\ patCalls[c2].pc = "done"
         /\ patCalls[c2].error = {}
         /\ i < j
         /\ log[i].type = "REPLACE_PERSONAL_TOKEN_DETAILS" /\ log[i].task = c2
         /\ log[j].type = "LOGIN_REQUEST" /\ log[j].task = c2
         /\ log[j].appToken = {"p1"}

\* the loading state is set only while a call of its kind is in progress
C18_LoadingOnlyInProgress ==
    /\ (\A c \in DOMAIN patCalls : patCalls[c].pc = "done") => patLoadingState = {}
    /\ patLoadingState = {"adding"}
       => \E c \in DOMAIN patCalls :
            patCalls[c].kind = "add" /\ patCalls[c].pc \in {"get", "post"}
    /\ patLoadingState = {"removing"}
       => \E c \in DOMAIN patCalls :
            patCalls[c].kind = "remove" /\ patCalls[c].pc = "microtask"

\* the step that ends a call clears the loading state
C18_ClearedAtEnd ==
    \A c \in DOMAIN patCalls :
        (patCalls[c].pc # "done" /\ patCalls'[c].pc = "done") => patLoadingState' = {}

\* C18: when a call of loginWithGitHubPersonalAccessToken or of
\* removePersonalAccessToken ends, in success, failure or cancellation, the PAT
\* loading state is undefined; it is "adding" or "removing" only while such a
\* call is in progress.
C18_LoadingStateCleared == []C18_LoadingOnlyInProgress /\ [][C18_ClearedAtEnd]_vars

C18_Witness ==
    /\ patLoadingState = {}
    /\ \E c1, c2 \in DOMAIN patCalls :
         /\ patCalls[c1].kind = "add" /\ patCalls[c1].pc = "done"
         /\ patCalls[c1].error = {"Invalid response from GitHub API"}
         /\ patCalls[c2].kind = "remove" /\ patCalls[c2].pc = "done"

====
